---- MODULE Spec2Model ----
(***************************************************************************)
(* A model of gopher-luar (package luar): the forward converter New, the   *)
(* reverse converter lValueToReflect, the per-interpreter operator-table   *)
(* registry (ensureMetatable), handle equality (baseEqual) and the map     *)
(* proxy (mapLen, mapIndex, mapNewIndex, mapCall and its iterator).        *)
(*                                                                         *)
(* Numbers.  A lua.LNumber is a float64.  Integers of TLC are 32 bits, so  *)
(* a number is kept as a pair: hi counts multiples of 2^53 and the low     *)
(* part counts units (host integers, field lo) or half units (floats,      *)
(* field lo2, so that 3/2 is lo2 = 3).  Around +-2^53 only the floats a    *)
(* float64 can hold occur: spacing 1 just below 2^53, spacing 2 above.     *)
(***************************************************************************)
EXTENDS Integers, Sequences, FiniteSets, TLC

VARIABLES
    registry,   \* L.G.Registry[metatableKey] of each interpreter: 0 (LNil) or the id of a table set
    built,      \* the table sets ensureMetatable has built, in order: built[id] is the interpreter
    handles,    \* the *lua.LUserData allocated so far, in order (L.NewUserData)
    heap,       \* the host maps: ref -> [key, elem, m], m a function from host keys to host values
    iters,      \* the closures returned by mapCall: the captured value, keys and i
    written,    \* the last successful index-write still in force: 0 or [ref, lKey, lValue]
    last        \* the operation that ran last, with its arguments and what the script got

vars == <<registry, built, handles, heap, iters, written, last>>

\* ------------------------------------------------------------------ bounds

MaxOff == 3
MaxHandles == 2
MaxBuilt == 2

\* ------------------------------------------------------- host values (Go)

SignedKinds == {"int", "int8"}
UnsignedKinds == {"uint64", "uint8"}
ProxiedKinds == {"chan", "map", "ptr", "slice", "struct"}

HBool(b) == [t |-> "bool", b |-> b]
HString(s) == [t |-> "string", s |-> s]
HInt(ty, hi, lo) == [t |-> ty, hi |-> hi, lo |-> lo]
HFloat(hi, lo2) == [t |-> "float64", hi |-> hi, lo2 |-> lo2]
HIface(lv) == [t |-> "interface", dyn |-> lv]
HRef(kind, ref) == [t |-> kind, ref |-> ref]
HStruct(name) == [t |-> "struct", name |-> name]
HNil == [t |-> "nil"]
\* a reflect.Value operation panicked, or the panic at the end of lValueToReflect
Panic == [t |-> "panic"]
\* the zero reflect.Value (what MapIndex returns for an absent key)
Invalid == [t |-> "invalid"]

\* ------------------------------------------------- script values (gopher-lua)

LNil == [k |-> "nil"]
LBool(b) == [k |-> "bool", b |-> b]
LString(s) == [k |-> "string", s |-> s]
LNumber(hi, lo2) == [k |-> "number", hi |-> hi, lo2 |-> lo2]
LTable == [k |-> "table"]
\* the untyped nil New returns for a kind it has no case for
GoNil == [k |-> "none"]

\* ------------------------------------------------------------- arithmetic

\* n/2 with the fraction discarded (truncation towards zero)
Trunc2(n) == IF n >= 0 THEN n \div 2 ELSE -((-n) \div 2)

\* the nearest even integer to lo > 0 above 2^53, ties to the even mantissa
RoundToEven2(lo) ==
    IF lo % 2 = 0 THEN lo
    ELSE IF (lo - 1) % 4 = 0 THEN lo - 1 ELSE lo + 1

\* float64(n) for the integer n = hi * 2^53 + lo, as <<hi, lo2>>
ToFloat64(hi, lo) ==
    CASE hi = 0 -> <<0, 2 * lo>>
      [] hi = 1 -> IF lo <= 0 THEN <<1, 2 * lo>> ELSE <<1, 2 * RoundToEven2(lo)>>
      [] hi = -1 -> IF lo >= 0 THEN <<-1, 2 * lo>> ELSE <<-1, -(2 * RoundToEven2(-lo))>>
      [] OTHER -> <<hi, 0>>

\* the low 8 bits of n, read as unsigned and as signed
WrapU8(n) == n % (2^8)
WrapS8(n) == IF WrapU8(n) >= 2^7 THEN WrapU8(n) - 2^8 ELSE WrapU8(n)

IsNegative(hi, lo) == hi < 0 \/ (hi = 0 /\ lo < 0)

\* the integer part of the float <<hi, lo2>>, as <<hi, lo>>: int64(f), uint64(f)
Truncate(hi, lo2) == IF hi = 0 THEN <<0, Trunc2(lo2)>> ELSE <<hi, lo2 \div 2>>

\* ------------------------------------------------------ lValueToReflect

\* a nil that becomes the zero reflect.Value instead of the zero of the hint
ZeroInvalid(hint) == Invalid

\* reflect.Zero(hint)
Zero(hint) ==
    CASE hint = "bool" -> HBool(FALSE)
      [] hint = "string" -> HString("")
      [] hint \in SignedKinds \cup UnsignedKinds -> HInt(hint, 0, 0)
      [] hint = "float64" -> HFloat(0, 0)
      [] hint = "interface" -> HIface(LNil)
      [] OTHER -> [t |-> hint, ref |-> 0]

\* the integer <<hi, lo>> cut to the width of a signed kind (reflect's makeInt)
CutSigned(hint, n) ==
    IF hint = "int8" THEN HInt(hint, 0, WrapS8(n[2])) ELSE HInt(hint, n[1], n[2])

\* the same for an unsigned kind; a negative n is 2^64 + n before the cut
CutUnsigned(hint, n) ==
    IF hint = "uint8" THEN HInt(hint, 0, WrapU8(n[2]))
    ELSE IF IsNegative(n[1], n[2]) THEN HInt(hint, n[1] + 2^11, n[2])
    ELSE HInt(hint, n[1], n[2])

\* reflect.ValueOf(converted).Convert(hint) for an LNumber (kind float64): the
\* outcomes it can have.  The conversion of a negative float to an unsigned
\* integer is implementation-dependent in Go: it wraps or it saturates at 0.
ConvertNumber(v, hint) ==
    LET n == Truncate(v.hi, v.lo2) IN
    CASE hint \in SignedKinds -> {CutSigned(hint, n)}
      [] hint \in UnsignedKinds ->
            IF IsNegative(n[1], n[2])
            THEN {CutUnsigned(hint, n), HInt(hint, 0, 0)}
            ELSE {CutUnsigned(hint, n)}
      [] hint = "float64" -> {HFloat(v.hi, v.lo2)}
      [] hint = "interface" -> {HIface(v)}
      [] OTHER -> {Panic}

\* lValueToReflect with the number case reflect.ValueOf(converted), the
\* Convert(hint) forgotten
lValueToReflectNoConvert(v, hint) ==
    CASE v.k = "bool" -> {HBool(v.b)}
      [] v.k = "number" -> {HFloat(v.hi, v.lo2)}
      [] v.k = "nil" -> {Zero(hint)}
      [] v.k = "string" -> {HString(v.s)}
      [] v.k = "table" -> {[t |-> "*lua.LTable"]}
      [] v.k = "userdata" -> {v.value}
      [] OTHER -> {Panic}

\* lValueToReflect(v, hint): the set of reflect.Values it can return, Panic
\* among them when it can fail
lValueToReflect(v, hint) ==
    CASE v.k = "bool" -> {HBool(v.b)}
      [] v.k = "number" -> ConvertNumber(v, hint)
      [] v.k = "nil" -> {Zero(hint)}
      [] v.k = "string" -> {HString(v.s)}
      [] v.k = "table" -> {[t |-> "*lua.LTable"]}
      [] v.k = "userdata" -> {v.value}
      [] OTHER -> {Panic}

\* reflect.Value.Type() of a result
TypeOf(rv) == rv.t

\* ---------------------------------------------------- the operator tables

Interps == {1, 2}

\* var typeMetatable: the operators of each named table
typeMetatable ==
    [chan |-> {"__index", "__tostring", "__eq"},
     map |-> {"__index", "__newindex", "__len", "__call", "__tostring", "__eq"},
     ptr |-> {"__index", "__newindex", "__tostring", "__eq"},
     slice |-> {"__index", "__newindex", "__len", "__tostring", "__eq"},
     struct |-> {"__index", "__newindex", "__tostring"},
     type |-> {"__call", "__tostring"}]

NoMetatable == [set |-> 0, name |-> "none"]

\* table.RawGetH(lua.LString(name)): the type table of that name in table set
\* `table`; each set ensureMetatable builds holds its own six tables
RawGetH(table, name) == [set |-> table, name |-> name]

\* ensureMetatable without its early return: every call builds a new set
RegistryHitNever(v) == FALSE

\* the condition of ensureMetatable's early return: the registry holds a table
RegistryHit(v) == v # 0

\* ensureMetatable(L): the table set it returns
ensureMetatable(L) ==
    IF RegistryHit(registry[L]) THEN registry[L] ELSE Len(built) + 1

\* ensureMetatable(L): what it does to the registry
ensureMetatableStep(L) ==
    IF RegistryHit(registry[L])
    THEN UNCHANGED <<registry, built>>
    ELSE /\ Len(built) < MaxBuilt
         /\ built' = Append(built, L)
         /\ registry' = [registry EXCEPT ![L] = Len(built) + 1]

\* ------------------------------------------------------------------ New

LUserData(id, value, mt) == [k |-> "userdata", id |-> id, value |-> value, mt |-> mt]

\* the switch of New on val.Kind(), with `table` the result of ensureMetatable
\* and id the userdata L.NewUserData would allocate
NewValue(table, value, id) ==
    CASE value.t = "bool" -> LBool(value.b)
      [] value.t \in SignedKinds \cup UnsignedKinds ->
            LET f == ToFloat64(value.hi, value.lo) IN LNumber(f[1], f[2])
      [] value.t = "float64" -> LNumber(value.hi, value.lo2)
      [] value.t = "string" -> LString(value.s)
      [] value.t \in ProxiedKinds -> LUserData(id, value, RawGetH(table, value.t))
      [] value.t = "unsafe.Pointer" -> LUserData(id, value, NoMetatable)
      [] OTHER -> GoNil

\* New(L, value): the lua.LValue it returns
New(L, value) ==
    CASE value.t = "nil" -> LNil
      [] value.t = "LValue" -> value.lv
      [] OTHER -> NewValue(ensureMetatable(L), value, Len(handles) + 1)

\* New(L, value): what it does to the interpreter
NewStep(L, value) ==
    IF value.t \in {"nil", "LValue"}
    THEN UNCHANGED <<registry, built, handles>>
    ELSE /\ ensureMetatableStep(L)
         /\ handles' = IF New(L, value).k = "userdata" /\ New(L, value).id = Len(handles) + 1
                        THEN Append(handles, [L |-> L, ud |-> New(L, value)])
                        ELSE handles

\* NewType(L, value): the type handle; its payload is the reflect.Type
NewType(L, value) ==
    LUserData(Len(handles) + 1, [t |-> "reflect.Type", of |-> value.t],
              RawGetH(ensureMetatable(L), "type"))

NewTypeStep(L, value) ==
    /\ ensureMetatableStep(L)
    /\ handles' = Append(handles, [L |-> L, ud |-> NewType(L, value)])

\* -------------------------------------------------------------- baseEqual

\* whether Go can compare two values of this dynamic type with ==
Comparable(t) == t \notin {"map", "slice", "func"}

\* ud1.Value == ud2.Value on two interface values: "true", "false", or
\* "panic" (runtime error: comparing uncomparable type) when both hold
\* the same dynamic type and that type is a map or a slice
baseEqual(ud1, ud2) ==
    CASE ud1.value.t # ud2.value.t -> "false"
      [] ~Comparable(ud1.value.t) -> "panic"
      [] OTHER -> IF ud1.value = ud2.value THEN "true" ELSE "false"

\* the function object stored under `event` in the metatable of ud, 0 if none;
\* ensureMetatable calls L.NewFunction once per table and operator
metaOp(ud, event) ==
    IF ud.mt # NoMetatable /\ event \in typeMetatable[ud.mt.name]
    THEN <<ud.mt.set, ud.mt.name, event>>
    ELSE <<0, "none", event>>

\* the script's a == b on two userdata: the same object is equal; otherwise
\* __eq decides when both operands carry the same __eq function
ScriptEq(ud1, ud2) ==
    IF ud1.id = ud2.id THEN "true"
    ELSE IF metaOp(ud1, "__eq")[1] # 0 /\ metaOp(ud1, "__eq") = metaOp(ud2, "__eq")
         THEN baseEqual(ud1, ud2)
         ELSE "false"

\* ------------------------------------------------------------ the universe

Offsets == (-MaxOff)..MaxOff

\* host integers: around 0 and around +-2^53, and the ends of the 8-bit kinds
HostInts ==
    {HInt("int", hi, lo) : hi \in {-1, 0, 1}, lo \in Offsets}
    \cup {HInt("int8", 0, lo) : lo \in Offsets \cup {-(2^7), 2^7 - 1}}
    \cup {HInt("uint64", 0, lo) : lo \in 0..MaxOff}
    \cup {HInt("uint64", 1, lo) : lo \in Offsets}
    \cup {HInt("uint8", 0, lo) : lo \in (0..MaxOff) \cup {2^8 - 1}}

HostStrings == {"", "NA", "North America"}

HostPrimitives ==
    {HBool(b) : b \in BOOLEAN} \cup {HString(s) : s \in HostStrings} \cup HostInts
    \cup {HFloat(0, lo2) : lo2 \in {-3, 0, 3}}

\* the floats a script can hold: halves around 0, 300 and -129 (outside the
\* 8-bit kinds), and the float64 neighbours of +-2^53
ScriptNumbers ==
    {LNumber(0, lo2) : lo2 \in (-(2 * MaxOff + 1))..(2 * MaxOff + 1)}
    \cup {LNumber(0, 600), LNumber(0, -258)}
    \cup {LNumber(1, lo2) : lo2 \in {-4, -2, 0, 4}}
    \cup {LNumber(-1, lo2) : lo2 \in {4, 2, 0, -4}}

ScriptPrimitives ==
    {LBool(b) : b \in BOOLEAN} \cup {LString(s) : s \in HostStrings} \cup ScriptNumbers

ScriptValues == ScriptPrimitives \cup {LNil, LTable, GoNil}

Hints == {"bool", "string", "int", "int8", "uint64", "uint8", "float64", "interface", "map"}

\* the values a host hands to New in the handle scenario
HostObjects ==
    {HRef("chan", 1), HRef("chan", 2), HRef("map", 1), HRef("ptr", 1),
     HRef("slice", 1), HStruct("Tim"), HRef("unsafe.Pointer", 1),
     HNil, [t |-> "complex128"], [t |-> "LValue", lv |-> LString("NA")],
     HBool(TRUE), HString("NA"), HInt("int", 0, 1)}

NoWrite == [ref |-> 0]

InitIdle ==
    /\ registry = [L \in Interps |-> 0]
    /\ built = <<>>
    /\ handles = <<>>
    /\ iters = <<>>
    /\ written = NoWrite
    /\ last = [op |-> "none"]

\* ------------------------------------------- scenario 1: the two converters

\* lValueToReflect(v, hint) on its own
Reverse(v, hint) ==
    /\ \E out \in lValueToReflect(v, hint) :
          last' = [op |-> "lValueToReflect", v |-> v, hint |-> hint, out |-> out]
    /\ UNCHANGED <<registry, built, handles, heap, iters, written>>

\* New(L, value) and then lValueToReflect with the type of value as the hint
RoundTrip(L, value) ==
    /\ NewStep(L, value)
    /\ \E out \in lValueToReflect(New(L, value), value.t) :
          last' = [op |-> "roundtrip", value |-> value, lv |-> New(L, value), out |-> out]
    /\ UNCHANGED <<heap, iters, written>>

InitConv == InitIdle /\ heap = <<>>

NextConv ==
    \/ \E v \in ScriptValues, hint \in Hints : Reverse(v, hint)
    \/ \E value \in HostPrimitives : RoundTrip(1, value)

SpecConv == InitConv /\ [][NextConv]_vars

\* ------------------------------------------------- scenario 2: the handles

\* the host calls New(L, value)
HostNew(L, value) ==
    /\ New(L, value).k = "userdata" => Len(handles) < MaxHandles
    /\ NewStep(L, value)
    /\ last' = [op |-> "New", L |-> L, value |-> value, res |-> New(L, value)]
    /\ UNCHANGED <<heap, iters, written>>

\* the host calls NewType(L, value)
HostNewType(L, value) ==
    /\ Len(handles) < MaxHandles
    /\ NewTypeStep(L, value)
    /\ last' = [op |-> "NewType", L |-> L, value |-> value, res |-> NewType(L, value)]
    /\ UNCHANGED <<heap, iters, written>>

\* a script of one interpreter evaluates a == b on two of its handles
Equal(a, b) ==
    /\ handles[a].L = handles[b].L
    /\ last' = [op |-> "eq", a |-> a, b |-> b, res |-> ScriptEq(handles[a].ud, handles[b].ud)]
    /\ UNCHANGED <<registry, built, handles, heap, iters, written>>

InitHandles == InitIdle /\ heap = <<>>

NextHandles ==
    \/ \E L \in Interps, value \in HostObjects : HostNew(L, value)
    \/ \E L \in Interps, value \in {HStruct("Tim"), HRef("map", 1)} : HostNewType(L, value)
    \/ \E a \in DOMAIN handles, b \in DOMAIN handles : Equal(a, b)

SpecHandles == InitHandles /\ [][NextHandles]_vars

\* ---------------------------------------------------------- the map proxy

\* the map types of the scenarios: map[string]string and map[int]int
MapTypes == {[key |-> "string", elem |-> "string"], [key |-> "int", elem |-> "int"]}

\* what a script returns from a handler: the values pushed, or a fatal error
Returns(vals) == [fatal |-> FALSE, vals |-> vals]
Fatal == [fatal |-> TRUE, vals |-> <<>>]

\* whether reflect lets rv be used where type `ty` is required (Value.assignTo)
AssignableTo(rv, ty) == rv.t = ty \/ (ty = "interface" /\ rv.t \notin {"panic", "invalid"})

\* reflect.Value.MapIndex(key) on map object obj: Panic, Invalid or the element
MapIndex(obj, key) ==
    IF ~AssignableTo(key, obj.key) THEN Panic
    ELSE IF key \in DOMAIN obj.m THEN obj.m[key] ELSE Invalid

\* m with key -> elem stored, key added when it is new
Store(m, key, elem) ==
    [x \in DOMAIN m \cup {key} |-> IF x = key THEN elem ELSE m[x]]

\* m without key (Go's delete)
Delete(m, key) == [x \in DOMAIN m \ {key} |-> m[x]]

\* SetMapIndex on a copy of the map: the store is lost
SetMapIndexOnCopy(obj, key, elem) ==
    IF ~AssignableTo(key, obj.key) THEN Panic
    ELSE IF elem # Invalid /\ ~AssignableTo(elem, obj.elem) THEN Panic
    ELSE [t |-> "ok", m |-> obj.m]

\* SetMapIndex that stores the element without checking its type
SetMapIndexUnchecked(obj, key, elem) ==
    IF ~AssignableTo(key, obj.key) THEN Panic
    ELSE IF elem = Invalid THEN [t |-> "ok", m |-> Delete(obj.m, key)]
    ELSE [t |-> "ok", m |-> Store(obj.m, key, elem)]

\* reflect.Value.SetMapIndex(key, elem) on map object obj: Panic or the
\* contents afterwards; the zero Value as elem deletes the key
SetMapIndex(obj, key, elem) ==
    IF ~AssignableTo(key, obj.key) THEN Panic
    ELSE IF elem = Invalid THEN [t |-> "ok", m |-> Delete(obj.m, key)]
    ELSE IF ~AssignableTo(elem, obj.elem) THEN Panic
    ELSE [t |-> "ok", m |-> Store(obj.m, key, elem)]

\* reflect.Value.MapKeys(): the keys in an order Go does not specify
RECURSIVE Orders(_)
Orders(S) ==
    IF S = {} THEN {<<>>}
    ELSE UNION {{<<x>> \o rest : rest \in Orders(S \ {x})} : x \in S}

MapKeys(obj) == Orders(DOMAIN obj.m)

\* the map a handle refers to
MapOf(ud) == heap[ud.value.ref]

\* mapLen: pushes the number of entries
mapLen(ud) == Returns(<<LNumber(0, 2 * Cardinality(DOMAIN MapOf(ud).m))>>)

\* mapIndex, up to value.MapIndex(key), on handle ud with script key lKey: the
\* items it can find, Panic when the key conversion or MapIndex fails
mapIndexItem(ud, lKey) ==
    {IF key = Panic THEN Panic ELSE MapIndex(MapOf(ud), key) :
        key \in lValueToReflect(lKey, MapOf(ud).key)}

\* mapIndex calling item.Interface() on the zero Value, as the iterator does
mapIndexNoValidCheck(L, item) ==
    IF item \in {Panic, Invalid} THEN Fatal ELSE Returns(<<New(L, item)>>)

\* mapIndex from there: nothing pushed for the zero Value, else New(L, item)
mapIndex(L, item) ==
    IF item = Panic THEN Fatal
    ELSE IF item = Invalid THEN Returns(<<>>)
    ELSE Returns(<<New(L, item)>>)

\* mapNewIndex on handle ud with script key lKey and script value lValue: the
\* outcomes SetMapIndex can have, Panic when a conversion or the store fails
mapNewIndex(ud, lKey, lValue) ==
    {IF key = Panic \/ mapValue = Panic THEN Panic
     ELSE SetMapIndex(MapOf(ud), key, mapValue) :
        key \in lValueToReflect(lKey, MapOf(ud).key),
        mapValue \in lValueToReflect(lValue, MapOf(ud).elem)}

\* the closure fn of mapCall, invoked with i < len(keys): Fatal when
\* value.MapIndex(keys[i]) is the zero Value (Interface() panics), else the pair
iterNext(L, it) ==
    LET item == MapIndex(heap[it.value.ref], it.keys[it.i + 1]) IN
    IF item \in {Invalid, Panic} THEN Fatal
    ELSE Returns(<<New(L, it.keys[it.i + 1]), New(L, item)>>)

\* the condition of the closure's early return: i >= len(keys)
ExhaustedEarly(it) == it.i + 1 >= Len(it.keys)
Exhausted(it) == it.i >= Len(it.keys)

\* ------------------------------------------------ scenario 3: map handles

MapRefs == {1}
ScriptInterps == {1}

\* the keys and elements a host map of the scenario can hold
HostValuesOf(ty) ==
    IF ty = "string" THEN {HString(""), HString("NA")}
    ELSE {HInt("int", 0, 0), HInt("int", 0, 1)}

\* the keys and values scripts index with: nil, a boolean, a string, 1, 3/2
\* and a table
ScriptArgs == {LNil, LBool(TRUE), LString("NA"), LNumber(0, 2), LNumber(0, 3), LTable}

\* the host calls New(L, m) on one of its maps
MapNew(L, ref) ==
    /\ Len(handles) < MaxHandles
    /\ NewStep(L, HRef("map", ref))
    /\ last' = [op |-> "New", h |-> Len(handles) + 1]
    /\ UNCHANGED <<heap, iters, written>>

\* a script evaluates #h
Length(h) ==
    /\ last' = [op |-> "len", h |-> h, res |-> mapLen(handles[h].ud)]
    /\ UNCHANGED <<registry, built, handles, heap, iters, written>>

\* a script evaluates h[lKey]
Index(h, lKey) ==
    \E item \in mapIndexItem(handles[h].ud, lKey) :
       /\ last' = [op |-> "index", h |-> h, key |-> lKey,
                   res |-> mapIndex(handles[h].L, item), pre |-> MapOf(handles[h].ud).m]
       /\ IF item \in {Panic, Invalid}
          THEN UNCHANGED <<registry, built, handles>>
          ELSE NewStep(handles[h].L, item)
       /\ UNCHANGED <<heap, iters, written>>

\* an iterator closure after a change of map ref: whether only new keys
\* were added since it was made
Touch(its, ref, added) ==
    [n \in DOMAIN its |->
        IF its[n].value.ref = ref
        THEN [its[n] EXCEPT !.addsOnly = its[n].addsOnly /\ added]
        ELSE its[n]]

\* a script executes h[lKey] = lValue
NewIndex(h, lKey, lValue) ==
    LET ref == handles[h].ud.value.ref IN
    \E out \in mapNewIndex(handles[h].ud, lKey, lValue) :
       /\ last' = [op |-> "newindex", h |-> h, key |-> lKey, val |-> lValue,
                   res |-> IF out = Panic THEN Fatal ELSE Returns(<<>>),
                   pre |-> heap[ref].m]
       /\ IF out = Panic
          THEN UNCHANGED <<heap, iters, written>>
          ELSE /\ heap' = [heap EXCEPT ![ref].m = out.m]
               /\ written' = [ref |-> ref, key |-> lKey, val |-> lValue,
                               nh |-> Len(handles)]
               /\ iters' = Touch(iters, ref,
                                 Cardinality(DOMAIN out.m) > Cardinality(DOMAIN heap[ref].m))
       /\ UNCHANGED <<registry, built, handles>>

\* host code executes m[key] = elem on one of its maps
HostSet(ref, key, elem) ==
    /\ heap' = [heap EXCEPT ![ref].m = Store(heap[ref].m, key, elem)]
    /\ written' = IF written.ref = ref THEN NoWrite ELSE written
    /\ iters' = Touch(iters, ref, key \notin DOMAIN heap[ref].m)
    /\ last' = [op |-> "host"]
    /\ UNCHANGED <<registry, built, handles>>

\* host code executes delete(m, key)
HostDelete(ref, key) ==
    /\ key \in DOMAIN heap[ref].m
    /\ heap' = [heap EXCEPT ![ref].m = Delete(heap[ref].m, key)]
    /\ written' = IF written.ref = ref THEN NoWrite ELSE written
    /\ iters' = Touch(iters, ref, FALSE)
    /\ last' = [op |-> "host"]
    /\ UNCHANGED <<registry, built, handles>>

InitMap ==
    /\ InitIdle
    /\ \E ty \in MapTypes :
          heap = [ref \in MapRefs |-> [key |-> ty.key, elem |-> ty.elem, m |-> <<>>]]

NextMap ==
    \/ \E L \in ScriptInterps, ref \in MapRefs : MapNew(L, ref)
    \/ \E h \in DOMAIN handles : Length(h)
    \/ \E h \in DOMAIN handles, lKey \in ScriptArgs : Index(h, lKey)
    \/ \E h \in DOMAIN handles, lKey \in ScriptArgs, lValue \in ScriptArgs :
          NewIndex(h, lKey, lValue)
    \/ \E ref \in MapRefs :
          \E key \in HostValuesOf(heap[ref].key), elem \in HostValuesOf(heap[ref].elem) :
             HostSet(ref, key, elem)
    \/ \E ref \in MapRefs : \E key \in HostValuesOf(heap[ref].key) : HostDelete(ref, key)

SpecMap == InitMap /\ [][NextMap]_vars

\* --------------------------------------------- scenario 4: map iteration

\* the map of the iteration scenario is a map[string]string, like places
IterMapType == [key |-> "string", elem |-> "string"]

\* the keys it can hold
IterKeys == {HString("NA"), HString("EU"), HString("AS")}

\* what scripts write to it while an iterator runs
IterScriptKeys == {LString("NA")}
IterScriptValues == {LNil, LString("NA")}

\* a script evaluates h(): mapCall captures value, keys and i = 0 in a fresh
\* closure; the script keeps the newest closure
Call(h) ==
    /\ \E keys \in MapKeys(MapOf(handles[h].ud)) :
          iters' = <<[value |-> handles[h].ud.value, keys |-> keys, i |-> 0,
                      created |-> MapOf(handles[h].ud).m, yielded |-> <<>>,
                      addsOnly |-> TRUE]>>
    /\ last' = [op |-> "call", h |-> h]
    /\ UNCHANGED <<registry, built, handles, heap, written>>

\* a script invokes the closure
Invoke(L, n) ==
    LET it == iters[n] IN
    IF Exhausted(it)
    THEN /\ last' = [op |-> "next", res |-> Returns(<<>>)]
         /\ UNCHANGED <<registry, built, handles, heap, iters, written>>
    ELSE /\ last' = [op |-> "next", res |-> iterNext(L, it)]
         /\ IF iterNext(L, it).fatal
            THEN UNCHANGED <<registry, built, handles, iters>>
            ELSE /\ NewStep(L, it.keys[it.i + 1])
                 /\ NewStep(L, heap[it.value.ref].m[it.keys[it.i + 1]])
                 /\ iters' = [iters EXCEPT ![n] =
                                 [it EXCEPT !.i = it.i + 1,
                                            !.yielded = Append(it.yielded, iterNext(L, it).vals)]]
         /\ UNCHANGED <<heap, written>>

\* the interpreter after the host ran L.SetGlobal("places", New(L, places))
\* on an empty map
InitIter ==
    /\ registry = [L \in Interps |-> IF L = 1 THEN 1 ELSE 0]
    /\ built = <<1>>
    /\ handles = <<[L |-> 1, ud |-> NewValue(1, HRef("map", 1), 1)]>>
    /\ iters = <<>>
    /\ written = NoWrite
    /\ last = [op |-> "none"]
    /\ heap = [ref \in MapRefs |->
                 [key |-> IterMapType.key, elem |-> IterMapType.elem, m |-> <<>>]]

NextIter ==
    \/ \E h \in DOMAIN handles : Call(h)
    \/ \E L \in ScriptInterps, n \in DOMAIN iters : Invoke(L, n)
    \/ \E h \in DOMAIN handles, lKey \in IterScriptKeys, lValue \in IterScriptValues :
          NewIndex(h, lKey, lValue)
    \/ \E ref \in MapRefs :
          \E key \in IterKeys, elem \in HostValuesOf(heap[ref].elem) :
             HostSet(ref, key, elem)
    \/ \E ref \in MapRefs : \E key \in IterKeys : HostDelete(ref, key)

SpecIter == InitIter /\ [][NextIter]_vars



\* ------------------------------------------------------------- the claims

\* a host boolean, string, or integer of magnitude at most 2^53
InSafeRange(value) ==
    \/ value.t \in {"bool", "string"}
    \/ /\ value.t \in SignedKinds \cup UnsignedKinds
       /\ \/ value.hi = 0
          \/ value.hi = 1 /\ value.lo <= 0
          \/ value.hi = -1 /\ value.lo >= 0

\* the table sets built for interpreter L
BuiltFor(L) == {i \in DOMAIN built : built[i] = L}

\* C3: two distinct handles New made of the same host value of a proxied
\* kind (channel, map, pointer, slice, struct) compare equal in the script.
C3_HandleEquality ==
    (/\ last.op = "eq"
     /\ last.a # last.b
     /\ handles[last.a].ud.value = handles[last.b].ud.value
     /\ handles[last.a].ud.value.t \in ProxiedKinds)
    => last.res = "true"

\* C4: over any sequence of New and NewType calls, the table set of an
\* interpreter is built at most once, the registry keeps pointing at that one
\* set, and every handle with an operator table carries the table of its kind
\* from that set, so handles of one kind on one interpreter share one table.
C4_RegisteredOnce ==
    /\ \A L \in Interps :
          /\ Cardinality(BuiltFor(L)) <= 1
          /\ registry[L] # 0 => BuiltFor(L) = {registry[L]}
          /\ registry[L] = 0 => BuiltFor(L) = {}
    /\ \A i \in DOMAIN handles :
          handles[i].ud.mt # NoMetatable =>
             handles[i].ud.mt.set = registry[handles[i].L]
    /\ \A i \in DOMAIN handles, j \in DOMAIN handles :
          (/\ handles[i].L = handles[j].L
           /\ handles[i].ud.mt.name = handles[j].ud.mt.name)
          => handles[i].ud.mt = handles[j].ud.mt

\* C4's case: a second handle of the same kind was made on an interpreter
\* whose table set was already registered
C4_Witness ==
    /\ last.op \in {"New", "NewType"}
    /\ Len(handles) >= 2
    /\ handles[1].L = handles[2].L
    /\ handles[1].ud.mt.name = handles[2].ud.mt.name
    /\ handles[1].ud.mt # NoMetatable
    /\ last.res = handles[2].ud

\* C6: for a boolean, string or number script value and any hint,
\* lValueToReflect returns a value of the hint's type or fails fatally.
C6_TypedOrFatal ==
    (last.op = "lValueToReflect" /\ last.v.k \in {"bool", "string", "number"})
    => (last.out = Panic \/ TypeOf(last.out) = last.hint)

\* C7: for a host boolean, string, or integer of magnitude at most 2^53, New
\* followed by lValueToReflect with the original type as the hint gives back
\* a value of that type equal to the original.
C7_RoundTripPrimitives ==
    (last.op = "roundtrip" /\ InSafeRange(last.value))
    => (TypeOf(last.out) = last.value.t /\ last.out = last.value)

\* C7's case: the round trip of the int64 2^53, the edge of the safe range
C7_Witness ==
    /\ last.op = "roundtrip"
    /\ last.value = HInt("int", 1, 0)
    /\ last.lv = LNumber(1, 0)
    /\ last.out = last.value

\* what a script value is as a host value of type ty when the two agree: nil is
\* the zero value, a number loses its fraction; Invalid when they do not agree
CoerceTo(v, ty) ==
    CASE v.k = "nil" /\ ty = "string" -> HString("")
      [] v.k = "nil" /\ ty = "int" -> HInt("int", 0, 0)
      [] v.k = "string" /\ ty = "string" -> HString(v.s)
      [] v.k = "number" /\ ty = "int" /\ v.hi = 0 /\ v.lo2 >= 0 ->
            HInt("int", 0, (v.lo2 - (v.lo2 % 2)) \div 2)
      [] OTHER -> Invalid

Coercible(v, ty) == CoerceTo(v, ty) # Invalid

\* a host string or small integer as the script sees it
ScriptOf(hv) == IF hv.t = "string" THEN LString(hv.s) ELSE LNumber(0, 2 * hv.lo)

\* the map of the handle the last operation went through
LastMap == heap[handles[last.h].ud.value.ref]

\* the last write is still in force and the last operation read its key
\* through a handle on the same map
ReadOfWritten ==
    /\ last.op = "index"
    /\ written.ref # 0
    /\ handles[last.h].ud.value.ref = written.ref
    /\ last.key = written.key

\* C2 as stated: after an index-write of K with V, an index-read of K through
\* any handle on the same map returns V.
C2_MapIdentity == ReadOfWritten => last.res = Returns(<<written.val>>)

\* C2 amended: the read returns V as coerced to the map's element type (V
\* itself when the element type holds V exactly, the zero value for nil, the
\* integer part of a fractional number), through the writing handle or any
\* handle made later, and the host map holds K -> that coerced value.
C2_MapIdentityCoerced ==
    /\ ReadOfWritten =>
          last.res = Returns(<<ScriptOf(CoerceTo(written.val, LastMap.elem))>>)
    /\ written.ref # 0 =>
          LET obj == heap[written.ref] IN
          /\ CoerceTo(written.key, obj.key) \in DOMAIN obj.m
          /\ obj.m[CoerceTo(written.key, obj.key)] = CoerceTo(written.val, obj.elem)

\* C2's case: a value written through one handle is read back through a
\* handle that New made after the write
C2_Witness ==
    /\ ReadOfWritten
    /\ last.h > written.nh
    /\ written.val = LString("NA")
    /\ last.res = Returns(<<LString("NA")>>)

\* C5: an index-write whose key or value cannot be coerced to the map's key
\* or element type is fatal and leaves the map as it was; the map never
\* holds an entry of another type.
C5_MismatchFatalNoEffect ==
    /\ last.op = "newindex" =>
          /\ (~Coercible(last.key, LastMap.key) \/ ~Coercible(last.val, LastMap.elem))
                => last.res = Fatal
          /\ last.res = Fatal => LastMap.m = last.pre
    /\ \A ref \in DOMAIN heap : \A key \in DOMAIN heap[ref].m :
          key.t = heap[ref].key /\ heap[ref].m[key].t = heap[ref].elem

\* C5's case: a boolean value written to a map that already holds entries
C5_Witness ==
    /\ last.op = "newindex"
    /\ last.val = LBool(TRUE)
    /\ Coercible(last.key, LastMap.key)
    /\ last.res = Fatal
    /\ DOMAIN last.pre # {}

\* C8: an index-read with a key of the map's key type that is absent gives nil
\* to the script without an error and without changing the map; a present
\* key gives a non-nil value even when the stored value is the zero value.
C8_AbsentKeyRead ==
    (last.op = "index" /\ Coercible(last.key, LastMap.key)) =>
       LET key == CoerceTo(last.key, LastMap.key) IN
       /\ ~last.res.fatal
       /\ LastMap.m = last.pre
       /\ key \notin DOMAIN last.pre => last.res.vals = <<>>
       /\ key \in DOMAIN last.pre =>
             /\ last.res.vals = <<ScriptOf(last.pre[key])>>
             /\ last.res.vals[1] # LNil

\* C8's case: a read of an absent key on a map that holds another key
C8_Witness ==
    /\ last.op = "index"
    /\ Coercible(last.key, LastMap.key)
    /\ CoerceTo(last.key, LastMap.key) \notin DOMAIN last.pre
    /\ DOMAIN last.pre # {}
    /\ last.res = Returns(<<>>)

\* C10: an index-write of nil under key K stores the zero value of the
\* element type: K is present afterwards, the length did not shrink (it grew
\* by one when K was absent), and every key enumeration contains K.
C10_NilWriteStoresZero ==
    (last.op = "newindex" /\ last.val = LNil /\ Coercible(last.key, LastMap.key)) =>
       LET key == CoerceTo(last.key, LastMap.key) IN
       /\ ~last.res.fatal
       /\ key \in DOMAIN LastMap.m
       /\ LastMap.m[key] = CoerceTo(LNil, LastMap.elem)
       /\ Cardinality(DOMAIN LastMap.m) >= Cardinality(DOMAIN last.pre)
       /\ key \notin DOMAIN last.pre =>
             Cardinality(DOMAIN LastMap.m) = Cardinality(DOMAIN last.pre) + 1
       /\ \A keys \in MapKeys(LastMap) : \E n \in DOMAIN keys : keys[n] = key

\* C10's case: nil written under a key that held a non-zero value
C10_Witness ==
    /\ last.op = "newindex"
    /\ last.val = LNil
    /\ Coercible(last.key, LastMap.key)
    /\ CoerceTo(last.key, LastMap.key) \in DOMAIN last.pre
    /\ last.pre[CoerceTo(last.key, LastMap.key)] # CoerceTo(LNil, LastMap.elem)
    /\ ~last.res.fatal

\* what the closure has yielded are pairs of distinct keys of the map as it
\* was when the closure was made, and once it yields nothing it has yielded
\* every such key
VisitsCreationKeys(it) ==
    /\ \A j \in DOMAIN it.yielded :
          \E key \in DOMAIN it.created : it.yielded[j][1] = ScriptOf(key)
    /\ \A j1 \in DOMAIN it.yielded, j2 \in DOMAIN it.yielded :
          j1 # j2 => it.yielded[j1][1] # it.yielded[j2][1]
    /\ (last.op = "next" /\ last.res = Returns(<<>>)) =>
          Len(it.yielded) = Cardinality(DOMAIN it.created)

\* C1: when only new keys are added to the map after the iterator was made,
\* its invocations yield exactly the pairs the map held at creation, each key
\* once and never an added key, without error, and nothing after the last.
C1_IterationSnapshot ==
    \A n \in DOMAIN iters :
       iters[n].addsOnly =>
          /\ last.op = "next" => ~last.res.fatal
          /\ VisitsCreationKeys(iters[n])
          /\ \A j \in DOMAIN iters[n].yielded :
                \E key \in DOMAIN iters[n].created :
                   iters[n].yielded[j] =
                      <<ScriptOf(key), ScriptOf(iters[n].created[key])>>

\* C1's case: an iterator made over two keys, a third key added before it was
\* exhausted, and the iterator run until it yields nothing
C1_Witness ==
    /\ iters # <<>>
    /\ iters[1].addsOnly
    /\ Cardinality(DOMAIN iters[1].created) = 2
    /\ Cardinality(DOMAIN heap[1].m) = 3
    /\ Len(iters[1].yielded) = 2
    /\ last = [op |-> "next", res |-> Returns(<<>>)]

\* C9: under any mutation of the map (insert, overwrite, delete) between the
\* invocations, every invocation completes without a fatal error, the keys
\* visited are exactly the keys at creation, each once, and the value yielded
\* is the map's value for the key at the moment of the visit.
C9_IterationUnderMutation ==
    \A n \in DOMAIN iters :
       /\ last.op = "next" => ~last.res.fatal
       /\ VisitsCreationKeys(iters[n])
       /\ (last.op = "next" /\ last.res.vals # <<>>) =>
             \E key \in DOMAIN heap[iters[n].value.ref].m :
                last.res.vals = <<ScriptOf(key), ScriptOf(heap[iters[n].value.ref].m[key])>>
====
